---------------------------- MODULE Spec2Model ----------------------------
(***************************************************************************)
(* A model of mesa_namelists.py: the Fortran-90 namelist parser            *)
(* (Namelist.__init__, _parse_value, _check_lists) and the serializer      *)
(* (dump, format_value_to_fortran).                                        *)
(*                                                                         *)
(* Text is a sequence of one-character strings.  A Python value is a       *)
(* pair <<type, payload>>; an OrderedDict is a sequence of [k, v] entries  *)
(* in insertion order.  A float is the pair <<m, e>> standing for m * 10^e,   *)
(* with m free of trailing zeros, so that two floats are equal exactly     *)
(* when their pairs are.                                                   *)
(*                                                                         *)
(* A value that a Python statement computes once and uses several times    *)
(* is passed on as the argument of the operator that models the rest of    *)
(* the statement.                                                          *)
(***************************************************************************)
EXTENDS Integers, Sequences, FiniteSets, TLC

(***************************************************************************)
(* Bounds of the model.                                                    *)
(***************************************************************************)
MaxLines == 2    \* body lines of the one-block input texts
MaxBlocks == 3   \* blocks of the many-block input texts
MaxLen == 2      \* elements of a list of a Document given to dump

(***************************************************************************)
(* Characters and the str methods the code uses.                           *)
(***************************************************************************)
Chars(s) == [i \in 1..Len(s) |-> SubSeq(s, i, i)]

Digits == {"0", "1", "2", "3", "4", "5", "6", "7", "8", "9"}

Letters ==
  {"a", "b", "c", "d", "e", "f", "g", "h", "i", "j", "k", "l", "m",
   "n", "o", "p", "q", "r", "s", "t", "u", "v", "w", "x", "y", "z",
   "A", "B", "C", "D", "E", "F", "G", "H", "I", "J", "K", "L", "M",
   "N", "O", "P", "Q", "R", "S", "T", "U", "V", "W", "X", "Y", "Z"}

\* \w
WordChars == Digits \cup Letters \cup {"_"}

\* \s, and what strip() and split() take for white space
Whitespace == {" ", "\t", "\n", "\r"}

NL == "\n"

DigitVal(c) == CHOOSE n \in 0..9 : <<"0", "1", "2", "3", "4", "5", "6", "7", "8", "9">>[n + 1] = c

DigitChar(n) == <<"0", "1", "2", "3", "4", "5", "6", "7", "8", "9">>[n + 1]

Last(s) == s[Len(s)]

AllIn(s, S) == \A i \in 1..Len(s) : s[i] \in S

Min(S) == CHOOSE i \in S : \A j \in S : i <= j

Max(S) == CHOOSE i \in S : \A j \in S : j <= i

\* the first and the last position of s that holds a character of S, 0 if none
FirstIn(s, S) == Min({i \in 1..Len(s) : s[i] \in S} \cup {Len(s) + 1}) % (Len(s) + 1)

LastIn(s, S) == Max({i \in 1..Len(s) : s[i] \in S} \cup {0})

\* the first position of s that holds no character of S, Len(s) + 1 if none
FirstNotIn(s, S) == Min({i \in 1..Len(s) : s[i] \notin S} \cup {Len(s) + 1})

LastNotIn(s, S) == Max({i \in 1..Len(s) : s[i] \notin S} \cup {0})

\* s.count(c)
Count(s, c) == Cardinality({i \in 1..Len(s) : s[i] = c})

\* s[from:] in Python terms, from counted from 1
Drop(s, from) == SubSeq(s, from, Len(s))

\* s.startswith(c), s.endswith(c) for a one-character c
StartsWith(s, c) == Len(s) > 0 /\ s[1] = c

EndsWith(s, c) == Len(s) > 0 /\ s[Len(s)] = c

\* s.strip()
Strip(s) == SubSeq(s, FirstNotIn(s, Whitespace), LastNotIn(s, Whitespace))

\* s.replace(a, b) for one-character a and b
Replace(s, a, b) == [i \in 1..Len(s) |-> IF s[i] = a THEN b ELSE s[i]]

\* s.split(c): the pieces between the occurrences of c, empty pieces kept
RECURSIVE Split(_, _)
SplitAt(s, c, p) ==
  IF p = 0 THEN <<s>> ELSE <<SubSeq(s, 1, p - 1)>> \o Split(Drop(s, p + 1), c)

Split(s, c) == SplitAt(s, c, FirstIn(s, {c}))

\* s.split(): the maximal runs of non-whitespace
RECURSIVE SplitWS(_)
SplitRun(t, p) ==
  IF t = <<>> THEN <<>>
  ELSE IF p = 0 THEN <<t>>
  ELSE <<SubSeq(t, 1, p - 1)>> \o SplitWS(Drop(t, p + 1))

SplitRuns(t) == SplitRun(t, FirstIn(t, Whitespace))

SplitWS(s) == SplitRuns(Strip(s))

\* sep.join(parts)
RECURSIVE Join(_, _)
Join(parts, sep) ==
  IF parts = <<>> THEN <<>>
  ELSE IF Len(parts) = 1 THEN parts[1]
  ELSE parts[1] \o sep \o Join(Tail(parts), sep)

(***************************************************************************)
(* Numbers: int(), float() and the '{:d}' and '{:.2e}' formats.            *)
(***************************************************************************)
\* the number a string of digits writes
RECURSIVE ParseNat(_)
ParseNat(s) ==
  IF s = <<>> THEN 0 ELSE 10 * ParseNat(SubSeq(s, 1, Len(s) - 1)) + DigitVal(s[Len(s)])

IsDigits(s) == Len(s) > 0 /\ AllIn(s, Digits)

Unsigned(s) == IF Len(s) > 0 /\ s[1] \in {"+", "-"} THEN Tail(s) ELSE s

Sign(s) == IF StartsWith(s, "-") THEN -1 ELSE 1

\* int(s) succeeds: an optional sign and decimal digits
IsInt(s) == IsDigits(Unsigned(s))

IntOf(s) == Sign(s) * ParseNat(Unsigned(s))

\* m * 10^e with the trailing zeros of m moved into e
RECURSIVE Normalise(_, _)
Normalise(m, e) ==
  IF m = 0 THEN <<0, 0>>
  ELSE IF m % 10 = 0 THEN Normalise(m \div 10, e + 1)
  ELSE <<m, e>>

\* a float literal of integer digits ip, fraction digits fp and exponent ex
\* (<<>> when it has none): [ok, v]
FloatFromParts(sg, ip, fp, ex) ==
  IF /\ AllIn(ip, Digits)
     /\ AllIn(fp, Digits)
     /\ Len(ip) + Len(fp) > 0
     /\ (ex = <<>> \/ IsInt(ex))
  THEN [ok |-> TRUE,
        v |-> Normalise(sg * ParseNat(ip \o fp),
                        (IF ex = <<>> THEN 0 ELSE IntOf(ex)) - Len(fp))]
  ELSE [ok |-> FALSE, v |-> <<0, 0>>]

\* the mantissa split at its point p (0: no point)
FloatFromMantissa(sg, mant, p, ex) ==
  IF p = 0 THEN FloatFromParts(sg, mant, <<>>, ex)
  ELSE FloatFromParts(sg, SubSeq(mant, 1, p - 1), Drop(mant, p + 1), ex)

\* the unsigned literal split at its exponent mark x (0: no mark); an
\* exponent mark must be followed by an exponent
FloatFromUnsigned(sg, u, x) ==
  IF x = 0 THEN FloatFromMantissa(sg, u, FirstIn(u, {"."}), <<>>)
  ELSE IF x = Len(u) THEN [ok |-> FALSE, v |-> <<0, 0>>]
  ELSE FloatFromMantissa(sg, SubSeq(u, 1, x - 1),
                         FirstIn(SubSeq(u, 1, x - 1), {"."}), Drop(u, x + 1))

FloatOfUnsigned(sg, u) == FloatFromUnsigned(sg, u, FirstIn(u, {"e", "E"}))

\* float(s): [ok, v], ok FALSE for the ValueError (decimal literals; the
\* spellings of inf and nan and the digit-grouping underscore are outside
\* the model's texts)
ParseFloat(s) == FloatOfUnsigned(Sign(s), Unsigned(s))

\* the decimal digits of a natural number
RECURSIVE NatToChars(_)
NatToChars(n) ==
  IF n < 10 THEN <<DigitChar(n)>>
  ELSE NatToChars(n \div 10) \o <<DigitChar(n % 10)>>

Abs(n) == IF n < 0 THEN -n ELSE n

\* '{:d}'.format(n)
FormatInt(n) == (IF n < 0 THEN <<"-">> ELSE <<>>) \o NatToChars(Abs(n))

\* the exponent of '{:.2e}': a sign and two digits at least
FormatExponent(x) ==
  (IF x < 0 THEN <<"-">> ELSE <<"+">>)
  \o (IF Abs(x) < 10 THEN <<"0">> ELSE <<>>) \o NatToChars(Abs(x))

\* the digits ds of the mantissa, padded to three, and the exponent
FormatDigits(negative, ds, e) ==
  (IF negative THEN <<"-">> ELSE <<>>)
  \o <<ds[1], ".",
       IF Len(ds) >= 2 THEN ds[2] ELSE "0",
       IF Len(ds) >= 3 THEN ds[3] ELSE "0", "e">>
  \o FormatExponent(IF ds = <<"0">> THEN 0 ELSE e + Len(ds) - 1)

\* '{:.2e}'.format(f) for a float of at most three significant digits, which
\* the format writes exactly: d.dde+XX
FormatExp(f) == FormatDigits(f[1] < 0, NatToChars(Abs(f[1])), f[2])

(***************************************************************************)
(* Python values.                                                          *)
(***************************************************************************)
IntV(n) == <<"int", n>>
FloatV(f) == <<"float", f>>
BoolV(b) == <<"bool", b>>
StrV(s) == <<"str", s>>
ComplexV(re, im) == <<"complex", <<re, im>> >>
ListV(xs) == <<"list", xs>>
\* {'_is_list': True, index: value, ...}: the items in insertion order
DictV(items) == <<"dict", items>>
NoneV == <<"none", 0>>

\* type(x) and the payload of x
TypeOf(x) == x[1]

Val(x) == x[2]

(***************************************************************************)
(* OrderedDict: a sequence of [k, v] entries.                              *)
(***************************************************************************)
Has(d, k) == \E i \in 1..Len(d) : d[i].k = k

Get(d, k) == d[CHOOSE i \in 1..Len(d) : d[i].k = k].v

\* d[k] = v: in place when k is a key, appended otherwise
Put(d, k, v) ==
  IF \E i \in 1..Len(d) : d[i].k = k
  THEN [i \in 1..Len(d) |-> IF d[i].k = k THEN [k |-> k, v |-> v] ELSE d[i]]
  ELSE Append(d, [k |-> k, v |-> v])

Keys(d) == [i \in 1..Len(d) |-> d[i].k]

(***************************************************************************)
(* The regular expressions of Namelist.__init__.                           *)
(***************************************************************************)
\* the number of leading digits of s
LeadDigits(s) == FirstNotIn(s, Digits) - 1

\* s is \d+.?\d* to its end, n its leading digits
NumberTail(s, n) == n >= 1 /\ (Len(s) = n \/ AllIn(Drop(s, n + 2), Digits))

NumberToEnd(s) == NumberTail(s, LeadDigits(s))

NoMatch == [ok |-> FALSE, a |-> <<>>, b |-> <<>>]

\* the two groups, the comma between them at c or else at n + 1: the first
\* group is tried with its optional character taken (any character, the dot
\* being unescaped) before it is tried without
ComplexSplit(body, n, c) ==
  IF c <= Len(body) /\ body[c] = "," /\ NumberToEnd(Drop(body, c + 1))
  THEN [ok |-> TRUE, a |-> SubSeq(body, 1, c - 1), b |-> Drop(body, c + 1)]
  ELSE IF n + 1 <= Len(body) /\ body[n + 1] = "," /\ NumberToEnd(Drop(body, n + 2))
  THEN [ok |-> TRUE, a |-> SubSeq(body, 1, n), b |-> Drop(body, n + 2)]
  ELSE NoMatch

\* n the leading digits of the first group
ComplexLead(body, n) ==
  IF n < 1 THEN NoMatch
  ELSE ComplexSplit(body, n, n + 2 + LeadDigits(Drop(body, n + 2)))

\* _complex_re = ^\((\d+.?\d*),(\d+.?\d*)\)$ on s: [ok, a, b]
complex_re(s) ==
  IF Len(s) >= 2 /\ s[1] = "(" /\ s[Len(s)] = ")"
  THEN ComplexLead(SubSeq(s, 2, Len(s) - 1),
                   LeadDigits(SubSeq(s, 2, Len(s) - 1)))
  ELSE NoMatch

\* string_re = \'\s*\w[^']*\' : re.findall(string_re, s)
RECURSIVE string_re(_)
\* rest follows an opening quote, q is the next quote in it, first the
\* first position of rest that is no white space
StringMatch(rest, q, first) ==
  IF first < q /\ rest[first] \in WordChars
  THEN <<(<<"'">> \o SubSeq(rest, 1, q - 1) \o <<"'">>)>> \o string_re(Drop(rest, q + 1))
  ELSE string_re(rest)

StringInner(rest, q) ==
  IF q = 0 THEN <<>>
  ELSE StringMatch(rest, q, FirstNotIn(SubSeq(rest, 1, q - 1), Whitespace))

StringFrom(s, p) ==
  IF p = 0 THEN <<>> ELSE StringInner(Drop(s, p + 1), FirstIn(Drop(s, p + 1), {"'"}))

string_re(s) == StringFrom(s, FirstIn(s, {"'"}))

\* array_re = (\w+)\((\d+)\) : re.findall(array_re, k), as the sequence of
\* [name, index] groups in the order of the matches.  A match has its '('
\* at p, after a word character and before d digits and a ')'.
ArrayOpen(k, p, d) ==
  /\ k[p] = "("
  /\ k[p - 1] \in WordChars
  /\ d >= 1
  /\ p + d + 1 <= Len(k)
  /\ k[p + d + 1] = ")"

ArrayOpens(k) == {p \in 2..Len(k) : ArrayOpen(k, p, LeadDigits(Drop(k, p + 1)))}

ArrayGroup(k, p) ==
  [name |-> SubSeq(k, LastNotIn(SubSeq(k, 1, p - 1), WordChars) + 1, p - 1),
   index |-> SubSeq(k, p + 1, p + LeadDigits(Drop(k, p + 1)))]

RECURSIVE ArrayGroups(_, _)
ArrayGroups(k, ps) ==
  IF ps = {} THEN <<>>
  ELSE <<ArrayGroup(k, Min(ps))>> \o ArrayGroups(k, ps \ {Min(ps)})

array_re(k) == ArrayGroups(k, ArrayOpens(k))

\* group_re = &([^&]+)/ with DOTALL: re.findall(group_re, text).  A match
\* starts at an '&' and, being greedy, ends at the last '/' before the next '&'.
RECURSIVE group_re(_)
\* after follows an '&', e is the last '/' before the next '&'
GroupEnd(after, e) ==
  IF e >= 2 THEN <<SubSeq(after, 1, e - 1)>> \o group_re(Drop(after, e + 1))
  ELSE group_re(after)

GroupRun(after, q) ==
  GroupEnd(after, LastIn(IF q = 0 THEN after ELSE SubSeq(after, 1, q - 1), {"/"}))

GroupFrom(text, p) ==
  IF p = 0 THEN <<>> ELSE GroupRun(Drop(text, p + 1), FirstIn(Drop(text, p + 1), {"&"}))

group_re(text) == GroupFrom(text, FirstIn(text, {"&"}))

(***************************************************************************)
(* Namelist._parse_value: [err, val], err the exception raised or "none".  *)
(***************************************************************************)
Raised(e) == [err |-> e, val |-> NoneV]

Parsed(v) == [err |-> "none", val |-> v]

Quoted(s, q) == StartsWith(s, q) /\ EndsWith(s, q) /\ Count(s, q) = 2

\* the booleans and the quoted strings
ParseWord(variable_value) ==
  IF variable_value \in {<<".", "t", "r", "u", "e", ".">>, <<"T">>}
  THEN Parsed(BoolV(TRUE))
  ELSE IF variable_value \in {<<".", "f", "a", "l", "s", "e", ".">>, <<"F">>}
  THEN Parsed(BoolV(FALSE))
  ELSE IF Quoted(variable_value, "'") \/ Quoted(variable_value, "\"")
  THEN Parsed(StrV(SubSeq(variable_value, 2, Len(variable_value) - 1)))
  ELSE Raised("NoSingleValueFoundException")

\* complex(float(a), float(b)): a ValueError of float is not caught here
ComplexOf(a, b) ==
  IF a.ok /\ b.ok THEN Parsed(ComplexV(a.v, b.v)) ELSE Raised("ValueError")

ParseComplex(variable_value, complex_values) ==
  IF complex_values.ok
  THEN ComplexOf(ParseFloat(complex_values.a), ParseFloat(complex_values.b))
  ELSE ParseWord(variable_value)

\* f: float(variable_value.replace('d', 'E'))
ParseReal(variable_value, f) ==
  IF f.ok THEN Parsed(FloatV(f.v))
  ELSE ParseComplex(variable_value, complex_re(variable_value))

_parse_value(variable_value) ==
  IF IsInt(variable_value) THEN Parsed(IntV(IntOf(variable_value)))
  ELSE ParseReal(variable_value, ParseFloat(Replace(variable_value, "d", "E")))

(***************************************************************************)
(* format_value_to_fortran and dump.                                       *)
(***************************************************************************)
FormatFloat(f) == Replace(FormatExp(f), "e", "d")

\* [err, s]: the text of a value, or the exception for a type not understood
format_value_to_fortran(value) ==
  CASE TypeOf(value) = "bool" ->
         [err |-> "none",
          s |-> IF Val(value) THEN <<".", "t", "r", "u", "e", ".">>
                ELSE <<".", "f", "a", "l", "s", "e", ".">>]
    [] TypeOf(value) = "int" -> [err |-> "none", s |-> FormatInt(Val(value))]
    [] TypeOf(value) = "float" -> [err |-> "none", s |-> FormatFloat(Val(value))]
    [] TypeOf(value) = "str" -> [err |-> "none", s |-> <<"'">> \o Val(value) \o <<"'">>]
    [] TypeOf(value) = "complex" ->
         [err |-> "none",
          s |-> <<"(">> \o FormatFloat(Val(value)[1]) \o <<",">>
                \o FormatFloat(Val(value)[2]) \o <<")">>]
    [] OTHER -> [err |-> "Exception", s |-> <<>>]

\* the values dump formats for one variable
Formatted(variable_value) ==
  IF TypeOf(variable_value) = "list"
  THEN [n \in 1..Len(Val(variable_value)) |->
          format_value_to_fortran(Val(variable_value)[n])]
  ELSE <<format_value_to_fortran(variable_value)>>

\* the lines dump appends for one variable, texts its formatted values
DumpVariable(variable_name, is_list, texts, array_inline) ==
  IF is_list /\ ~array_inline
  THEN [n \in 1..Len(texts) |->
          <<" ", " ", " ">> \o variable_name \o <<"(">> \o FormatInt(n)
          \o <<")", " ", "=", " ">> \o texts[n].s]
  ELSE << <<" ", " ", " ">> \o variable_name \o <<" ", "=", " ">>
          \o Join([n \in 1..Len(texts) |-> texts[n].s], <<" ">>) >>

\* whether dump raises on the group: some value has no Fortran format
DumpRaises(grp) ==
  \E i \in 1..Len(grp) : \E f \in {Formatted(grp[i].v)} :
    \E n \in 1..Len(f) : f[n].err # "none"

RECURSIVE DumpLines(_, _)
DumpLines(grp, array_inline) ==
  IF grp = <<>> THEN <<>>
  ELSE DumpVariable(grp[1].k, TypeOf(grp[1].v) = "list", Formatted(grp[1].v), array_inline)
       \o DumpLines(Tail(grp), array_inline)

\* dump(cls, namelist, array_inline): the text returned
dump(doc, name, array_inline) ==
  Join(<<(<<"&">> \o name)>>
       \o DumpLines(Get(doc, name), array_inline)
       \o <<(<<"/", " ", "!", " ", "e", "n", "d", " ", "o", "f", " ">> \o name
             \o <<" ", "n", "a", "m", "e", "l", "i", "s", "t">>)>>,
       <<NL>>) \o <<NL>>

(***************************************************************************)
(* Namelist.__init__, step by step.  Each operator returns the exception   *)
(* raised ("none" when there is none) and the data the step produces.      *)
(***************************************************************************)
NotComment(line) == ~StartsWith(Strip(line), "!")

\* the input without its comment lines, joined again
FilterLines(text) == Join(SelectSeq(Split(text, NL), NotComment), <<NL>>)

\* the first loop over a block's raw lines, one stripped line: skip, append,
\* or concatenate onto the previous line
AssembleStripped(lines, line) ==
  IF line = <<>> \/ StartsWith(line, "!")
  THEN [err |-> "none", lines |-> lines]
  ELSE IF Len(Split(line, "=")) = 2
  THEN [err |-> "none", lines |-> Append(lines, line)]
  ELSE IF lines = <<>>
  THEN [err |-> "IndexError", lines |-> lines]
  ELSE IF EndsWith(lines[Len(lines)], ",")
  THEN [err |-> "none", lines |-> [lines EXCEPT ![Len(lines)] = @ \o line]]
  ELSE [err |-> "ValueError", lines |-> lines]

AssembleLine(lines, raw) == AssembleStripped(lines, Strip(raw))

\* a line without its inline comment
Uncomment(line) ==
  IF Count(line, "!") > 0 THEN Strip(Split(line, "!")[1]) ELSE line

\* a block line without its trailing comma and without its inline comment
CleanLine(line) ==
  Uncomment(IF EndsWith(line, ",") THEN SubSeq(line, 1, Len(line) - 1) ELSE line)

\* variable_name and variable_index of the raw name k
TargetOf(k, variable_name_groups) ==
  IF Len(variable_name_groups) = 1
  THEN [name |-> variable_name_groups[1].name, indexed |-> TRUE,
        index |-> IntOf(variable_name_groups[1].index) - 1]
  ELSE [name |-> Strip(k), indexed |-> FALSE, index |-> 0]

LineTarget(k) == TargetOf(k, array_re(k))

\* group[variable_name][variable_index] = parsed_value on the group g1 that
\* holds the name.  Within a block a value of the group is a scalar or a
\* marked dict; a scalar takes no item assignment.
SetItemOf(g1, name, index, val, cur) ==
  IF TypeOf(cur) = "dict"
  THEN [err |-> "none", group |-> Put(g1, name, DictV(Put(Val(cur), index, val)))]
  ELSE [err |-> "TypeError", group |-> g1]

SetItemIn(g1, name, index, val) == SetItemOf(g1, name, index, val, Get(g1, name))

\* the marked dict is created when the name is new
SetItem(grp, name, index, val) ==
  SetItemIn(IF Has(grp, name) THEN grp ELSE Append(grp, [k |-> name, v |-> DictV(<<>>)]),
            name, index, val)

StripAll(matches) == [i \in 1..Len(matches) |-> Strip(matches[i])]

\* the entries of a value that is no single value
InlineEntries(variable_value) ==
  IF Count(variable_value, "'") \in {0, 2}
  THEN IF Count(variable_value, "(") # 0
       THEN SplitWS(variable_value)
       ELSE SplitWS(Replace(variable_value, ",", " "))
  ELSE StripAll(string_re(variable_value))

\* the loop over the inline entries, from entry i on
RECURSIVE AssignEntries(_, _, _, _)
AssignNext(name, entries, i, a) ==
  IF a.err # "none" THEN a ELSE AssignEntries(a.group, name, entries, i + 1)

AssignEntry(grp, name, entries, i, r) ==
  IF r.err # "none" THEN [err |-> r.err, group |-> grp]
  ELSE AssignNext(name, entries, i, SetItem(grp, name, i - 1, r.val))

AssignEntries(grp, name, entries, i) ==
  IF i > Len(entries) THEN [err |-> "none", group |-> grp]
  ELSE AssignEntry(grp, name, entries, i, _parse_value(entries[i]))

\* the try and its handler, r what _parse_value gave
Assign(grp, target, variable_value, r) ==
  IF r.err = "none"
  THEN IF target.indexed
       THEN SetItem(grp, target.name, target.index, r.val)
       ELSE [err |-> "none", group |-> Put(grp, target.name, r.val)]
  ELSE IF r.err = "NoSingleValueFoundException"
  THEN AssignEntries(grp, target.name, InlineEntries(variable_value), 1)
  ELSE [err |-> r.err, group |-> grp]

ParseAssignment(grp, target, variable_value) ==
  Assign(grp, target, variable_value, _parse_value(variable_value))

\* k, v = line.split('=')
ParseParts(grp, parts) ==
  IF Len(parts) # 2 THEN [err |-> "ValueError", group |-> grp]
  ELSE ParseAssignment(grp, LineTarget(parts[1]), Strip(parts[2]))

\* the second loop over a block's assembled lines, one line
ParseLine(grp, line) == ParseParts(grp, Split(CleanLine(line), "="))

\* the loop of _check_lists over the items of one marked dict: fills
\* variable_list; an index beyond the list raises (the NameError of the
\* message's undefined 'variable'), a negative one counts from the end
RECURSIVE FillList(_, _, _)
FillItem(variable_list, items, j, i, num_entries) ==
  IF i >= num_entries THEN [err |-> "NameError", list |-> variable_list]
  ELSE IF i < -num_entries THEN [err |-> "IndexError", list |-> variable_list]
  ELSE FillList(
         [variable_list EXCEPT
            ![IF i < 0 THEN num_entries + i + 1 ELSE i + 1] = items[j].v],
         items, j + 1)

FillList(variable_list, items, j) ==
  IF j > Len(items) THEN [err |-> "none", list |-> variable_list]
  ELSE FillItem(variable_list, items, j, items[j].k, Len(variable_list))

\* _check_lists on one group, from variable j on
RECURSIVE CheckGroup(_, _)
CheckFilled(grp, j, f) ==
  IF f.err # "none" THEN [err |-> f.err, group |-> grp]
  ELSE CheckGroup([grp EXCEPT ![j].v = ListV(f.list)], j + 1)

CheckGroup(grp, j) ==
  IF j > Len(grp) THEN [err |-> "none", group |-> grp]
  ELSE IF TypeOf(grp[j].v) # "dict" THEN CheckGroup(grp, j + 1)
  ELSE CheckFilled(grp, j,
         FillList([n \in 1..Len(Val(grp[j].v)) |-> NoneV], Val(grp[j].v), 1))

\* _check_lists over self.groups, from group j on
RECURSIVE _check_lists(_, _)
CheckedGroup(doc, j, c) ==
  IF c.err # "none" THEN [err |-> c.err, groups |-> doc]
  ELSE _check_lists([doc EXCEPT ![j].v = c.group], j + 1)

_check_lists(doc, j) ==
  IF j > Len(doc) THEN [err |-> "none", groups |-> doc]
  ELSE CheckedGroup(doc, j, CheckGroup(doc[j].v, 1))

\* the counter of a repeated name: 0 the first time, one more after
NextCount(cnt, name) == IF Has(cnt, name) THEN Get(cnt, name) + 1 ELSE 0

Renamed(cnt, name, c) == [key |-> name \o FormatInt(c), cnt |-> Put(cnt, name, c)]

\* the key a block is stored under and the counters after it
ResolveName(doc, cnt, name) ==
  IF Has(doc, name) THEN Renamed(cnt, name, NextCount(cnt, name))
  ELSE [key |-> name, cnt |-> cnt]

Checked(c, cnt) == [err |-> c.err, groups |-> c.groups, cnt |-> cnt]

StoreResolved(doc, grp, r) == Checked(_check_lists(Put(doc, r.key, grp), 1), r.cnt)

\* the end of a block: the renaming of a repeated name, the store, _check_lists
StoreBlock(doc, cnt, name, grp) == StoreResolved(doc, grp, ResolveName(doc, cnt, name))

(***************************************************************************)
(* Namelist(input_str) as a function of the text: the steps above run to   *)
(* the end.  [err, groups]: the exception that leaves the constructor, or  *)
(* the groups of the object built.                                         *)
(***************************************************************************)
RECURSIVE AssembleAll(_, _)
AssembleRest(r, raws) == IF r.err # "none" THEN r ELSE AssembleAll(r.lines, raws)

AssembleAll(lines, raws) ==
  IF raws = <<>> THEN [err |-> "none", lines |-> lines]
  ELSE AssembleRest(AssembleLine(lines, Head(raws)), Tail(raws))

RECURSIVE ParseAll(_, _)
ParseRest(r, lines) == IF r.err # "none" THEN r ELSE ParseAll(r.group, lines)

ParseAll(grp, lines) ==
  IF lines = <<>> THEN [err |-> "none", group |-> grp]
  ELSE ParseRest(ParseLine(grp, Head(lines)), Tail(lines))

RECURSIVE ParseBlocks(_, _, _)
BlockStored(st, blocks) ==
  IF st.err # "none" THEN [err |-> st.err, groups |-> <<>>]
  ELSE ParseBlocks(st.groups, st.cnt, blocks)

BlockParsed(doc, cnt, name, g, blocks) ==
  IF g.err # "none" THEN [err |-> g.err, groups |-> <<>>]
  ELSE BlockStored(StoreBlock(doc, cnt, name, g.group), blocks)

BlockAssembled(doc, cnt, name, a, blocks) ==
  IF a.err # "none" THEN [err |-> a.err, groups |-> <<>>]
  ELSE BlockParsed(doc, cnt, name, ParseAll(<<>>, a.lines), blocks)

BlockRaw(doc, cnt, raw, blocks) ==
  BlockAssembled(doc, cnt, Strip(raw[1]), AssembleAll(<<>>, Tail(raw)), blocks)

ParseBlocks(doc, cnt, blocks) ==
  IF blocks = <<>> THEN [err |-> "none", groups |-> doc]
  ELSE BlockRaw(doc, cnt, Split(Head(blocks), NL), Tail(blocks))

Namelist(text) == ParseBlocks(<<>>, <<>>, group_re(FilterLines(text)))

(***************************************************************************)
(* The inputs of the model.                                                *)
(***************************************************************************)
\* the sequences over S of length at most n
SeqsUpTo(S, n) == UNION {[1..m -> S] : m \in 0..n}

\* body lines: assignments of every literal form, indexed assignments,
\* trailing commas, continuations, inline comments, malformed values
BodyLines ==
  { Chars("x = 1"), Chars("x = 1,"), Chars("2"), Chars("3,"),
    Chars("x = 1 ! a=b"), Chars("x = 1, ! c"), Chars("x = 'a=b'"),
    Chars("a(0) = 1.0"), Chars("a(1) = 1.5d2"), Chars("a(2) = 2.0"),
    Chars("a(3) = .true."), Chars("a = 7"), Chars("a = 4 ! c,"),
    Chars("x ="), Chars("x = 'abc"), Chars("x = 'a' foo 'b'"),
    Chars("x = 'a b', 'c'"), Chars("x = (1.0,2.0)"), Chars("x = T F"),
    Chars(""), Chars("! c") }

GroupNames == {Chars("controls"), Chars("controls0")}

BodyText(body) == Join([i \in 1..Len(body) |-> <<" ">> \o body[i] \o <<NL>>], <<>>)

\* the text of one block
BlockText(name, body) == <<"&">> \o name \o <<NL>> \o BodyText(body) \o <<"/", NL>>

\* texts of one block named g, and texts of several blocks, block i holding x = i
Texts ==
  {BlockText(<<"g">>, body) : body \in SeqsUpTo(BodyLines, MaxLines)}
  \cup
  {Join([i \in 1..Len(names) |->
           BlockText(names[i], <<Chars("x = ") \o FormatInt(i)>>)], <<>>) :
     names \in SeqsUpTo(GroupNames, MaxBlocks) \ {<<>>}}

\* the supported scalar values, one of each variant, and the one-level lists of them
Scalars ==
  { IntV(-3), FloatV(<<15, -1>>), BoolV(TRUE), StrV(<<"a", " ", "b">>),
    ComplexV(<<1, 0>>, <<25, -1>>) }

Values == Scalars \cup {ListV(xs) : xs \in SeqsUpTo(Scalars, MaxLen)}

\* Documents: a group g of one or two variables, alone or followed by a group h
Groups ==
  {<<[k |-> <<"x">>, v |-> v]>> : v \in Values}
  \cup
  {<<[k |-> <<"y">>, v |-> w], [k |-> <<"x">>, v |-> v]>> :
     v \in Values, w \in {IntV(7), StrV(<<"c">>)}}

Documents ==
  {<<[k |-> <<"g">>, v |-> g]>> : g \in Groups}
  \cup
  {<<[k |-> <<"g">>, v |-> <<[k |-> <<"x">>, v |-> v]>>],
     [k |-> <<"h">>, v |-> <<[k |-> <<"z">>, v |-> ListV(<<v, v>>)]>>]>> :
     v \in Scalars}

(***************************************************************************)
(* The state: the Document handed to dump with dump's arguments, the text  *)
(* handed to Namelist, and the locals and fields of Namelist.__init__.     *)
(***************************************************************************)
VARIABLES
  cls_groups,       \* cls.groups of dump; <<>> when the text is given directly
  namelist,         \* dump's namelist argument
  array_inline,     \* dump's array_inline argument
  input_str,        \* the text parsed
  pc,               \* the place in the code
  err,              \* the exception that ended the call, "none" if none
  group_blocks,     \* the blocks still to be parsed
  group_name,       \* the current block's name
  block_lines_raw,  \* the current block's raw lines still to be assembled
  block_lines,      \* the current block's assembled lines still to be parsed
  group,            \* the current block's OrderedDict
  groups,           \* self.groups
  group_cnt         \* the counters of repeated group names

vars ==
  <<cls_groups, namelist, array_inline, input_str, pc, err, group_blocks,
    group_name, block_lines_raw, block_lines, group, groups, group_cnt>>

Init ==
  /\ err = "none"
  /\ group_blocks = <<>>
  /\ group_name = <<>>
  /\ block_lines_raw = <<>>
  /\ block_lines = <<>>
  /\ group = <<>>
  /\ groups = <<>>
  /\ group_cnt = <<>>
  /\ \/ /\ cls_groups \in Documents
        /\ namelist \in {cls_groups[i].k : i \in 1..Len(cls_groups)}
        /\ array_inline \in BOOLEAN
        /\ input_str = <<>>
        /\ pc = "dump"
     \/ /\ cls_groups = <<>>
        /\ namelist = <<>>
        /\ array_inline = TRUE
        /\ input_str \in Texts
        /\ pc = "start"

\* Dump with the group emptied as it is read, as a loop over popitem() would
DumpConsuming ==
  /\ pc \in {"dump", "start"}
  /\ cls_groups # <<>>
  /\ input_str' = dump(cls_groups, namelist, array_inline)
  /\ pc' = "start"
  /\ cls_groups' = Put(cls_groups, namelist, <<>>)
  /\ UNCHANGED <<err, namelist, array_inline, group_blocks, group_name,
                 block_lines_raw, block_lines, group, groups, group_cnt>>

\* dump(cls, namelist, array_inline), its text then given to Namelist; it
\* reads cls.groups and assigns nothing of it
Dump ==
  /\ pc \in {"dump", "start"}
  /\ cls_groups # <<>>
  /\ IF DumpRaises(Get(cls_groups, namelist))
     THEN pc' = "failed" /\ err' = "Exception" /\ UNCHANGED input_str
     ELSE /\ input_str' = dump(cls_groups, namelist, array_inline)
          /\ pc' = "start"
          /\ err' = err
  /\ UNCHANGED <<cls_groups, namelist, array_inline, group_blocks, group_name,
                 block_lines_raw, block_lines, group, groups, group_cnt>>

\* Namelist.__init__ up to the loop over the blocks
Start ==
  /\ pc = "start"
  /\ IF input_str = <<>>
     THEN pc' = "done" /\ UNCHANGED <<group_blocks, groups, group_cnt>>
     ELSE /\ group_blocks' = group_re(FilterLines(input_str))
          /\ groups' = <<>>
          /\ group_cnt' = <<>>
          /\ pc' = "block"
  /\ UNCHANGED <<cls_groups, namelist, array_inline, input_str, err,
                 group_name, block_lines_raw, block_lines, group>>

\* the head of the loop over the blocks
NextBlock ==
  /\ pc = "block"
  /\ IF group_blocks = <<>>
     THEN /\ pc' = "done"
          /\ UNCHANGED <<group_blocks, group_name, block_lines_raw, block_lines, group>>
     ELSE \E raw \in {Split(Head(group_blocks), NL)} :
            /\ group_name' = Strip(raw[1])
            /\ block_lines_raw' = Tail(raw)
            /\ group' = <<>>
            /\ block_lines' = <<>>
            /\ group_blocks' = Tail(group_blocks)
            /\ pc' = "assemble"
  /\ UNCHANGED <<cls_groups, namelist, array_inline, input_str, err, groups, group_cnt>>

\* one pass of the first loop over the block's lines
AssembleStep ==
  /\ pc = "assemble"
  /\ IF block_lines_raw = <<>>
     THEN pc' = "lines" /\ UNCHANGED <<err, block_lines_raw, block_lines>>
     ELSE \E r \in {AssembleLine(block_lines, Head(block_lines_raw))} :
            IF r.err # "none"
            THEN /\ pc' = "failed"
                 /\ err' = r.err
                 /\ UNCHANGED <<block_lines_raw, block_lines>>
            ELSE /\ block_lines' = r.lines
                 /\ block_lines_raw' = Tail(block_lines_raw)
                 /\ UNCHANGED <<pc, err>>
  /\ UNCHANGED <<cls_groups, namelist, array_inline, input_str, group_blocks,
                 group_name, group, groups, group_cnt>>

\* one pass of the second loop over the block's lines
ParseStep ==
  /\ pc = "lines"
  /\ IF block_lines = <<>>
     THEN pc' = "store" /\ UNCHANGED <<err, block_lines, group>>
     ELSE \E r \in {ParseLine(group, Head(block_lines))} :
            IF r.err # "none"
            THEN /\ pc' = "failed"
                 /\ err' = r.err
                 /\ UNCHANGED <<block_lines, group>>
            ELSE /\ group' = r.group
                 /\ block_lines' = Tail(block_lines)
                 /\ UNCHANGED <<pc, err>>
  /\ UNCHANGED <<cls_groups, namelist, array_inline, input_str, group_blocks,
                 group_name, block_lines_raw, groups, group_cnt>>

\* the end of the block: the name resolved, the group stored, _check_lists
StoreGroup ==
  /\ pc = "store"
  /\ \E r \in {StoreBlock(groups, group_cnt, group_name, group)} :
       IF r.err # "none"
       THEN /\ pc' = "failed"
            /\ err' = r.err
            /\ UNCHANGED <<groups, group_cnt>>
       ELSE /\ groups' = r.groups
            /\ group_cnt' = r.cnt
            /\ pc' = "block"
            /\ err' = err
  /\ UNCHANGED <<cls_groups, namelist, array_inline, input_str, group_blocks,
                 group_name, block_lines_raw, block_lines, group>>

Next == Dump \/ Start \/ NextBlock \/ AssembleStep \/ ParseStep \/ StoreGroup

Spec == Init /\ [][Next]_vars

\* what the call gave: the exception, or the groups built
Outcome == [err |-> err, groups |-> IF pc = "failed" THEN <<>> ELSE groups]

\* the steps and the function agree
StepsAgree == pc \in {"done", "failed"} => Outcome = Namelist(input_str)

(***************************************************************************)
(* The properties.                                                         *)
(***************************************************************************)
\* the call has returned or raised
Ended == pc \in {"done", "failed"}

\* two groups hold the same variables with the same values
SameMapping(g, h) ==
  /\ Len(g) = Len(h)
  /\ \A i \in 1..Len(g) : Has(h, g[i].k) /\ Get(h, g[i].k) = g[i].v

\* C1: round trip.  Parsing the text that dump gives for a group of a
\* Document, arrays inline, succeeds and yields that group with the same
\* variables and the same values.
C1_RoundTrip ==
  (Ended /\ cls_groups # <<>> /\ array_inline) =>
    /\ pc = "done"
    /\ Has(groups, namelist)
    /\ SameMapping(Get(cls_groups, namelist), Get(groups, namelist))

\* the names of the blocks of the input, in source order
BlockNames ==
  [i \in 1..Len(group_re(FilterLines(input_str))) |->
     Strip(Split(group_re(FilterLines(input_str))[i], NL)[1])]

\* the key the claim gives block i: the bare name for the first block of a
\* name, the name with 0, 1, ... for the next ones
ClaimedKey(names, i) ==
  IF Cardinality({j \in 1..(i - 1) : names[j] = names[i]}) = 0 THEN names[i]
  ELSE names[i] \o FormatInt(Cardinality({j \in 1..(i - 1) : names[j] = names[i]}) - 1)

\* C2: duplicate group naming.  A parsed Document has exactly one entry for
\* each block of the input, in source order, the first block of a name under
\* the bare name and the later ones under the name suffixed with 0, 1, ...
C2_OneEntryPerBlock ==
  pc = "done" =>
    /\ Len(groups) = Len(BlockNames)
    /\ \A i \in 1..Len(groups) : groups[i].k = ClaimedKey(BlockNames, i)

\* the zero-based indices assigned to an array variable of the current block
IndexSet(value) == {Val(value)[j].k : j \in 1..Len(Val(value))}

\* C3: gap detection.  When the indices assigned to a variable of a block
\* are not exactly 0 .. n-1, the parse fails at the end of the block.
C3_GapsAreFatal ==
  [][(/\ pc = "store"
      /\ \E i \in 1..Len(group) :
           /\ TypeOf(group[i].v) = "dict"
           /\ IndexSet(group[i].v) # 0..(Cardinality(IndexSet(group[i].v)) - 1))
     => pc' = "failed"]_vars

\* the group the current block was stored as
StoredGroup == Get(groups', ResolveName(groups, group_cnt, group_name).key)

\* C4: dense lists in index order.  A block that is stored holds, for every
\* array variable, a list with one element for each index assigned, the
\* value assigned to source index k+1 at position k, and no empty slot.
C4_DenseInIndexOrder ==
  [][(pc = "store" /\ pc' = "block") =>
       \A i \in 1..Len(group) :
         TypeOf(group[i].v) = "dict" =>
           /\ TypeOf(StoredGroup[i].v) = "list"
           /\ Len(Val(StoredGroup[i].v)) = Len(Val(group[i].v))
           /\ \A n \in 1..Len(Val(StoredGroup[i].v)) : Val(StoredGroup[i].v)[n] # NoneV
           /\ \A j \in 1..Len(Val(group[i].v)) :
                /\ Val(group[i].v)[j].k + 1 \in 1..Len(Val(StoredGroup[i].v))
                /\ Val(StoredGroup[i].v)[Val(group[i].v)[j].k + 1] = Val(group[i].v)[j].v]_vars

\* the comments tried: plain, holding '=', holding ','
Comments == {Chars("c"), Chars("a=b"), Chars("a,b,")}

\* the input's lines that are data lines of a body
DataLines(text) ==
  {i \in 1..Len(Split(text, NL)) :
     /\ Strip(Split(text, NL)[i]) # <<>>
     /\ Strip(Split(text, NL)[i])[1] \notin {"!", "&", "/"}}

\* the text with ' ! c' added to line i
WithComment(text, i, c) ==
  Join([j \in 1..Len(Split(text, NL)) |->
          IF j = i THEN Split(text, NL)[j] \o Chars(" ! ") \o c
          ELSE Split(text, NL)[j]], <<NL>>)

\* what a caller sees of a call: whether it raised, and the Document if not
Seen(result) == [raised |-> result.err # "none", groups |-> result.groups]

\* C5: comment stripping.  A text parses to the same Document, or fails as
\* well, when an inline comment is added to one of its data lines.
C5_CommentStripping ==
  (Ended /\ cls_groups = <<>>) =>
    \A i \in DataLines(input_str) : \A c \in Comments :
      Seen(Namelist(WithComment(input_str, i, c))) = Seen(Outcome)

\* the tokens of a raw value: quoted strings, parenthesised pairs, and the
\* runs between blanks and commas
RECURSIVE Tokens(_)
TokenEnd(t) ==
  IF t[1] = "'"
  THEN IF FirstIn(Tail(t), {"'"}) = 0 THEN Len(t) ELSE FirstIn(Tail(t), {"'"}) + 1
  ELSE IF t[1] = "(" /\ FirstIn(t, {")"}) # 0 THEN FirstIn(t, {")"})
  ELSE FirstIn(Tail(t) \o <<" ">>, {" ", ",", "'"})

Tokens(s) ==
  IF FirstNotIn(s, {" ", ","}) > Len(s) THEN <<>>
  ELSE <<SubSeq(Drop(s, FirstNotIn(s, {" ", ","})), 1,
                TokenEnd(Drop(s, FirstNotIn(s, {" ", ","}))))>>
       \o Tokens(Drop(Drop(s, FirstNotIn(s, {" ", ","})),
                      TokenEnd(Drop(s, FirstNotIn(s, {" ", ","}))) + 1))

\* a raw value that is no scalar literal and no array of scalar literals
Malformed(value) ==
  /\ _parse_value(value).err # "none"
  /\ \/ Tokens(value) = <<>>
     \/ \E n \in 1..Len(Tokens(value)) : _parse_value(Tokens(value)[n]).err # "none"

\* the line the second loop is at is name = value
AtAssignment ==
  /\ pc = "lines"
  /\ block_lines # <<>>
  /\ Len(Split(CleanLine(Head(block_lines)), "=")) = 2

RawName == Split(CleanLine(Head(block_lines)), "=")[1]

RawValue == Strip(Split(CleanLine(Head(block_lines)), "=")[2])

\* C6: malformed literals are fatal.  An assignment whose raw value is
\* neither a scalar literal nor an array of scalar literals fails the parse.
C6_MalformedIsFatal ==
  [][(AtAssignment /\ Malformed(RawValue)) => pc' = "failed"]_vars

\* the line the first loop is at, stripped, is a data line
AtDataLine ==
  /\ pc = "assemble"
  /\ block_lines_raw # <<>>
  /\ Strip(Head(block_lines_raw)) # <<>>
  /\ ~StartsWith(Strip(Head(block_lines_raw)), "!")

\* C7: split on the first '='.  A body line that holds one '=' or more is
\* taken as one assignment: appended to the assembled lines, not rejected
\* and not joined to the line before it.
C7_SplitOnFirstEquals ==
  [][(AtDataLine /\ Count(Strip(Head(block_lines_raw)), "=") >= 1) =>
       /\ pc' # "failed"
       /\ block_lines' = Append(block_lines, Strip(Head(block_lines_raw)))]_vars

\* C8: serialization is read-only.  A step of dump leaves the Document as
\* it was, and a second dump gives the text of the first.
C8_DumpReadOnly ==
  [][(pc = "dump" \/ (pc = "start" /\ pc' = "start")) =>
       /\ cls_groups' = cls_groups
       /\ (pc = "start" => input_str' = input_str)]_vars

\* dump has written, one line for each element, a group that holds a list
\* of two elements or more
C8_Dumped ==
  /\ pc = "start"
  /\ cls_groups # <<>>
  /\ ~array_inline
  /\ input_str # <<>>
  /\ \E i \in 1..Len(Get(cls_groups, namelist)) :
       /\ TypeOf(Get(cls_groups, namelist)[i].v) = "list"
       /\ Len(Val(Get(cls_groups, namelist)[i].v)) >= 2

\* C9: promotion to List.  An indexed assignment name(i) = w to a variable
\* the group already holds does not fail: the variable becomes, or stays,
\* index-keyed and its slot i-1 holds w.
C9_PromotionToList ==
  [][(/\ AtAssignment
      /\ LineTarget(RawName).indexed
      /\ _parse_value(RawValue).err = "none"
      /\ Has(group, LineTarget(RawName).name))
     => /\ pc' # "failed"
        /\ TypeOf(Get(group', LineTarget(RawName).name)) = "dict"
        /\ Has(Val(Get(group', LineTarget(RawName).name)), LineTarget(RawName).index)
        /\ Get(Val(Get(group', LineTarget(RawName).name)), LineTarget(RawName).index)
             = _parse_value(RawValue).val]_vars

\* the exception the parser raises for a line it cannot take: the one
\* line.split('=') gave, raised again
SyntaxErrors == {"ValueError"}

\* C10: line assembly.  A data line without '=' is joined to the line
\* assembled before it exactly when there is one and it ends with a comma;
\* otherwise the parse fails with the syntax error.  The line is never
\* skipped and never a line of its own.
C10_LineAssembly ==
  [][(AtDataLine /\ Count(Strip(Head(block_lines_raw)), "=") = 0) =>
       IF block_lines # <<>> /\ EndsWith(Last(block_lines), ",")
       THEN /\ pc' = "assemble"
            /\ block_lines' =
                 [block_lines EXCEPT ![Len(block_lines)] = @ \o Strip(Head(block_lines_raw))]
       ELSE /\ pc' = "failed"
            /\ err' \in SyntaxErrors]_vars

=============================================================================
